---------------------------- MODULE Spec2Model ----------------------------
(***************************************************************************)
(* A model of Mod Manager (src/mod_finder.py, src/utils.py): the version   *)
(* comparator, the search ranking, the download thread, the folder scanner *)
(* and the download handler with its stale-file sweep.                     *)
(*                                                                         *)
(* Strings are sequences of one-character strings, so that tokenising,     *)
(* trimming and lower-casing are computed and not assumed.                 *)
(***************************************************************************)
EXTENDS Integers, Sequences, FiniteSets, TLC

VARIABLES
  latest_version,   \* is_version_newer: first argument
  current_version,  \* is_version_newer: second argument
  newer,            \* "unset", or what is_version_newer returned: "True", "False"
  query,            \* ModSearchWorker.query (stripped by __init__)
  hits,             \* the "hits" of the registry's search response, in its order
  ranked,           \* hits after hits.sort(key=sorting_key)
  shown,            \* hits after hits = hits[:15]
  rank_pc,          \* "response": hits received; "ranked": sorted and cut
  dl_pc,            \* DownloadThread.run: "get", "stream", "finished", "error"
  dl_response,      \* what requests.get will answer: "ok", "bad_status", "exception"
  dl_total,         \* total: the content-length header, 0 when absent
  dl_chunks,        \* the lengths of the chunks r.iter_content yields
  dl_next,          \* the index of the next chunk
  dl_downloaded,    \* downloaded
  dl_events,        \* the signals emitted, in order
  scan_exists,      \* os.path.exists(self.folder)
  scan_dir,         \* the folder: file name -> content ("unreadable": no hash)
  check_updates,    \* FolderScannerWorker.check_updates
  scan_pc,          \* run: "start", "resolve", "names", "pool", "returned", "raised"
  hash_to_file,     \* run's hash_to_file
  recognized,       \* run's recognized
  project_names,    \* run's project_names
  scan_todo,        \* the hashes whose future has not completed
  scan_log,         \* the signals emitted, in order, each with what produced it
  mods_folder,      \* ModManagerApp.mods_folder ("": none chosen)
  download_folder,  \* ModManagerApp.download_folder ("": none chosen)
  fs,               \* the disk: folder -> (file name -> content)
  table,            \* the rows of ModManagerApp.table
  buttons,          \* scan_btn and search_btn_ui enabled, update_all_btn shown
  worker,           \* the scanner and search threads started, in order
  signals,          \* the signals the workers emitted that no slot has run for yet
  active_downloads, \* the DownloadThreads of ModManagerApp.active_downloads,
                    \* each with the account of the sweep that preceded it
  search_hits,      \* ModSearchWorker.run's hits, sorted, then cut to 15
  version_answers,  \* project_id -> what GET /project/{id}/version answers
  fetch_todo,       \* the candidates whose future has not completed
  search_results,   \* ModSearchWorker.run's results
  fetch_pc          \* "sorted", "pool", "emitted"

version_vars == <<latest_version, current_version, newer>>

rank_vars == <<query, hits, ranked, shown, rank_pc>>

dl_vars ==
  <<dl_pc, dl_response, dl_total, dl_chunks, dl_next, dl_downloaded, dl_events>>

scan_vars ==
  <<scan_exists, scan_dir, check_updates, scan_pc, hash_to_file, recognized,
    project_names, scan_todo, scan_log>>

app_vars ==
  <<mods_folder, download_folder, fs, table, buttons, worker, signals,
    active_downloads>>

fetch_vars ==
  <<search_hits, version_answers, fetch_todo, search_results, fetch_pc>>

vars == <<version_vars, rank_vars, dl_vars, scan_vars, app_vars, fetch_vars>>

(***************************************************************************)
(* Characters                                                              *)
(***************************************************************************)
Digits == {"0", "1", "2", "3", "4", "5", "6", "7", "8", "9"}

LowerLetters == {"a", "b"}

UpperLetters == {"A", "B"}

Letters == LowerLetters \cup UpperLetters

\* str.isdigit() / the class \d of _VERSION_RE, on one character
IsDigitChar(c) == c \in Digits

\* the class [a-zA-Z] of _VERSION_RE, on one character
IsLetterChar(c) == c \in Letters

\* the code point of a character: Python orders str by code point
CharCode(c) ==
  CASE c = " " -> 32
    [] c = "." -> 46
    [] c = "0" -> 48
    [] c = "1" -> 49
    [] c = "2" -> 50
    [] c = "3" -> 51
    [] c = "4" -> 52
    [] c = "5" -> 53
    [] c = "6" -> 54
    [] c = "7" -> 55
    [] c = "8" -> 56
    [] c = "9" -> 57
    [] c = "A" -> 65
    [] c = "B" -> 66
    [] c = "a" -> 97
    [] c = "b" -> 98

DigitValue(c) == CharCode(c) - 48

\* str.lower() on one character
LowerChar(c) ==
  CASE c = "A" -> "a"
    [] c = "B" -> "b"
    [] OTHER -> c

\* str.lower()
Lower(s) == [i \in 1..Len(s) |-> LowerChar(s[i])]

\* the strings of length at most n over the characters cs
RECURSIVE StringsUpTo(_, _)
StringsUpTo(cs, n) ==
  IF n = 0 THEN {<<>>}
  ELSE LET shorter == StringsUpTo(cs, n - 1)
       IN shorter \cup {Append(s, c) : s \in shorter, c \in cs}

(***************************************************************************)
(* Version comparator: _VERSION_RE, _version_key, is_version_newer         *)
(***************************************************************************)
\* int(part) for a run of digits
RECURSIVE IntOf(_)
IntOf(part) ==
  IF part = <<>> THEN 0
  ELSE 10 * IntOf(SubSeq(part, 1, Len(part) - 1)) + DigitValue(part[Len(part)])

\* the end of the maximal run of characters of one class that starts at i
RECURSIVE RunEnd(_, _, _)
RunEnd(s, i, digit) ==
  IF i < Len(s) /\ (IF digit THEN IsDigitChar(s[i + 1]) ELSE IsLetterChar(s[i + 1]))
  THEN RunEnd(s, i + 1, digit)
  ELSE i

\* _VERSION_RE.findall(s) from position i: the maximal runs of digits or of
\* letters, left to right; every other character separates
RECURSIVE FindAll(_, _)
FindAll(s, i) ==
  IF i > Len(s) THEN <<>>
  ELSE IF IsDigitChar(s[i]) \/ IsLetterChar(s[i])
       THEN LET e == RunEnd(s, i, IsDigitChar(s[i]))
            IN <<SubSeq(s, i, e)>> \o FindAll(s, e + 1)
       ELSE FindAll(s, i + 1)

\* a plausible slip: the tags exchanged, so that text sorts below numbers
KeyPartTagsSwapped(part) ==
  IF IsDigitChar(part[1]) THEN <<1, IntOf(part)>> ELSE <<0, Lower(part)>>

\* one element of the key: (0, int(part)) or (1, part.lower())
KeyPart(part) ==
  IF IsDigitChar(part[1]) THEN <<0, IntOf(part)>> ELSE <<1, Lower(part)>>

_version_key(raw_version) ==
  IF raw_version = <<>> THEN <<>>
  ELSE LET parts == FindAll(raw_version, 1)
       IN [i \in 1..Len(parts) |-> KeyPart(parts[i])]

\* Python's < on two str: the first differing code point decides, a proper
\* prefix is smaller
RECURSIVE StrLess(_, _)
StrLess(s, t) ==
  IF t = <<>> THEN FALSE
  ELSE IF s = <<>> THEN TRUE
  ELSE IF s[1] # t[1] THEN CharCode(s[1]) < CharCode(t[1])
  ELSE StrLess(Tail(s), Tail(t))

\* Python's < on two key elements (tag, value): the tags decide when they
\* differ, so an int is never compared with a str
PartLess(p, q) ==
  IF p[1] # q[1] THEN p[1] < q[1]
  ELSE IF p[1] = 0 THEN p[2] < q[2]
  ELSE StrLess(p[2], q[2])

\* Python's < on two tuples of key elements
RECURSIVE KeyLess(_, _)
KeyLess(k, l) ==
  IF l = <<>> THEN FALSE
  ELSE IF k = <<>> THEN TRUE
  ELSE IF k[1] # l[1] THEN PartLess(k[1], l[1])
  ELSE KeyLess(Tail(k), Tail(l))

\* a plausible slip: >= in place of >
is_version_newer_or_equal(latest, current) ==
  ~KeyLess(_version_key(latest), _version_key(current))

is_version_newer(latest, current) ==
  KeyLess(_version_key(current), _version_key(latest))

\* the version strings the specification quotes
V_1_10 == <<"1", ".", "1", "0">>

V_1_9 == <<"1", ".", "9">>

V_1_2 == <<"1", ".", "2">>

V_1_2_0 == <<"1", ".", "2", ".", "0">>

V_1_2_0a == <<"1", ".", "2", ".", "0", "a">>

V_1_2_1 == <<"1", ".", "2", ".", "1">>

V_1_0 == <<"1", ".", "0">>

V_empty == <<>>

QuotedVersions == {V_1_10, V_1_9, V_1_2, V_1_2_0, V_1_2_0a, V_1_2_1, V_1_0}

\* Bounds of the comparator's inputs: every string of at most MaxVerLen
\* characters of VerChars, and the quoted versions
MaxVerLen == 2

VerChars == {"1", "9", ".", "a", "A", "b"}

Versions == StringsUpTo(VerChars, MaxVerLen) \cup QuotedVersions

InitVersion ==
  /\ latest_version \in Versions
  /\ current_version \in Versions
  /\ newer = "unset"

VersionIdle ==
  /\ latest_version = <<>>
  /\ current_version = <<>>
  /\ newer = "unset"

CompareVersions ==
  /\ newer = "unset"
  /\ newer' = IF is_version_newer(latest_version, current_version)
              THEN "True" ELSE "False"
  /\ UNCHANGED <<latest_version, current_version>>

IsNumber(s) == s # <<>> /\ \A i \in 1..Len(s) : IsDigitChar(s[i])

\* the first position at which two sequences differ, 0 when one is a prefix
\* of the other
FirstDiff(k, l) ==
  LET both == 1..(IF Len(k) < Len(l) THEN Len(k) ELSE Len(l))
      diff == {i \in both : k[i] # l[i]}
  IN IF diff = {} THEN 0 ELSE CHOOSE i \in diff : \A j \in diff : i <= j

\* is_version_newer(a, b) was called and returned r
Compared(a, b, r) ==
  latest_version = a /\ current_version = b /\ newer = r

\* C9: is_version_newer is a strict greater-than on the tokenised versions:
\* the five quoted examples have the quoted values; a version is never newer
\* than itself; two versions are never each newer than the other, and one of
\* them is newer whenever their keys differ; two plain numbers compare as
\* integers; and changing the case of the letters changes nothing.
VersionNewerIsStrict ==
  /\ ~Compared(V_1_10, V_1_9, "False")
  /\ ~Compared(V_1_2, V_1_2, "True")
  /\ ~Compared(V_1_2_0, V_1_2, "False")
  /\ ~Compared(V_empty, V_1_0, "True")
  /\ ~Compared(V_1_0, V_empty, "False")
  /\ newer # "unset" =>
       /\ latest_version = current_version => newer = "False"
       /\ newer = "True" => ~is_version_newer(current_version, latest_version)
       /\ _version_key(latest_version) # _version_key(current_version) =>
            (newer = "True" \/ is_version_newer(current_version, latest_version))
       /\ IsNumber(latest_version) /\ IsNumber(current_version) =>
            (newer = "True" <=> IntOf(latest_version) > IntOf(current_version))
       /\ (newer = "True") <=>
            is_version_newer(Lower(latest_version), Lower(current_version))

\* C9 witness: "1.10" is found newer than "1.9", which a comparison as text
\* denies
VersionNewerWitness == Compared(V_1_10, V_1_9, "True")

\* C10 as stated: a numeric segment sorts below a textual one at the same
\* position, "1.2.0" < "1.2.0a" is false and "1.2" < "1.2.1" is true.
VersionOrderAsStated ==
  /\ ~Compared(V_1_2_0a, V_1_2_0, "True")
  /\ ~Compared(V_1_2_1, V_1_2, "False")

\* C10 amended: where the first differing segments of two versions are one
\* numeric and one textual, the version with the textual segment is the
\* newer one; "1.2.0" < "1.2.0a" is true (the key of "1.2.0" is a proper
\* prefix of that of "1.2.0a") and "1.2" < "1.2.1" is true.
VersionNumericBelowTextual ==
  /\ ~Compared(V_1_2_0a, V_1_2_0, "False")
  /\ ~Compared(V_1_2_1, V_1_2, "False")
  /\ newer # "unset" =>
       LET p == FindAll(latest_version, 1)
           q == FindAll(current_version, 1)
           i == FirstDiff(p, q)
       IN (i # 0 /\ IsNumber(p[i]) # IsNumber(q[i])) =>
            (newer = "True" <=> ~IsNumber(p[i]))

\* C10 witness: "1.2.0a" is found newer than "1.2.0"
VersionOrderWitness == Compared(V_1_2_0a, V_1_2_0, "True")

(***************************************************************************)
(* Search ranking: ModSearchWorker.run, lines 109-123                      *)
(***************************************************************************)
IsSpace(c) == c = " "

\* str.strip(): leading and trailing whitespace removed
RECURSIVE LStrip(_)
LStrip(s) == IF s # <<>> /\ IsSpace(s[1]) THEN LStrip(Tail(s)) ELSE s

RECURSIVE RStrip(_)
RStrip(s) ==
  IF s # <<>> /\ IsSpace(s[Len(s)]) THEN RStrip(SubSeq(s, 1, Len(s) - 1)) ELSE s

Strip(s) == RStrip(LStrip(s))

\* str.startswith
StartsWith(s, prefix) ==
  Len(prefix) <= Len(s) /\ SubSeq(s, 1, Len(prefix)) = prefix

\* a plausible slip: the prefix test made before the equality test
sorting_key_prefix_first(hit, q) ==
  LET title == Lower(Strip(hit.title))
      lq == Lower(Strip(q))
  IN IF StartsWith(title, lq) THEN 1
     ELSE IF title = lq THEN 0
     ELSE 2

sorting_key(hit, q) ==
  LET title == Lower(Strip(hit.title))
      lq == Lower(Strip(q))
  IN IF title = lq THEN 0
     ELSE IF StartsWith(title, lq) THEN 1
     ELSE 2

\* list.sort(key=...) with the keys 0, 1, 2: Python's sort is stable
SortHits(hs, q) ==
  LET Key0(h) == sorting_key(h, q) = 0
      Key1(h) == sorting_key(h, q) = 1
      Key2(h) == sorting_key(h, q) = 2
  IN SelectSeq(hs, Key0) \o SelectSeq(hs, Key1) \o SelectSeq(hs, Key2)

\* "limit": 25 of the search request
SearchLimit == 25

\* hits[:15]
DisplayLimit == 15

\* s[:n]
Take(s, n) == SubSeq(s, 1, IF Len(s) < n THEN Len(s) ELSE n)

\* Bounds of the ranking's inputs: a response is MaxCore or fewer hits with
\* titles of Titles, alone, or after 14 filler hits, or at the end of a
\* full response of SearchLimit hits
MaxCore == 2

Titles ==
  { <<"a">>, <<"A">>, <<"a", " ">>, <<" ", "a">>, <<"a", "B">>, <<"A", "b">>,
    <<"a", "b", "a">>, <<"B">>, <<"B", "a">>, <<>> }

Queries == { <<"a">>, <<"a", "B">>, <<"B", "a">> }

FillerTitle == <<"B", "a", "b">>

RECURSIVE SeqsUpTo(_, _)
SeqsUpTo(S, n) ==
  IF n = 0 THEN {<<>>}
  ELSE LET shorter == SeqsUpTo(S, n - 1)
       IN shorter \cup {Append(s, x) : s \in shorter, x \in S}

\* the response with the given titles; project_id numbers the hits
Response(titles) ==
  [i \in 1..Len(titles) |-> [title |-> titles[i], project_id |-> i]]

Filler(n) == [i \in 1..n |-> FillerTitle]

Responses ==
  { Response(Filler(k) \o core) :
      core \in SeqsUpTo(Titles, MaxCore), k \in {0, DisplayLimit - 1} }
  \cup { Response(Filler(SearchLimit - Len(core)) \o core) :
           core \in SeqsUpTo(Titles, MaxCore) }

InitRank ==
  /\ query \in Queries
  /\ hits \in Responses
  /\ ranked = <<>>
  /\ shown = <<>>
  /\ rank_pc = "response"

RankIdle ==
  /\ query = <<>>
  /\ hits = <<>>
  /\ ranked = <<>>
  /\ shown = <<>>
  /\ rank_pc = "response"

\* lines 121-123
RankHits ==
  /\ rank_pc = "response"
  /\ ranked' = SortHits(hits, query)
  /\ shown' = Take(ranked', DisplayLimit)
  /\ rank_pc' = "ranked"
  /\ UNCHANGED <<query, hits>>

\* the buckets as the claim words them: the title equals the query
\* case-insensitively; it only starts with it; neither
BucketAsStated(hit) ==
  IF Lower(hit.title) = Lower(query) THEN 0
  ELSE IF StartsWith(Lower(hit.title), Lower(query)) THEN 1
  ELSE 2

\* the buckets on the title trimmed of surrounding whitespace
BucketTrimmed(hit) ==
  IF Lower(Strip(hit.title)) = Lower(query) THEN 0
  ELSE IF StartsWith(Lower(Strip(hit.title)), Lower(query)) THEN 1
  ELSE 2

IsPermutation(s, t) ==
  /\ Len(s) = Len(t)
  /\ \A i \in 1..Len(t) : \E j \in 1..Len(s) : s[j] = t[i]

\* the ranked list holds the hits bucket after bucket, each bucket in the
\* registry's order (project_id numbers the response), the shown list is its
\* first DisplayLimit hits, and an exact match, if there is one, is first
RankedBy(Bucket(_)) ==
  rank_pc = "ranked" =>
    /\ IsPermutation(ranked, hits)
    /\ \A i, j \in 1..Len(ranked) :
         i < j =>
           /\ Bucket(ranked[i]) <= Bucket(ranked[j])
           /\ Bucket(ranked[i]) = Bucket(ranked[j]) =>
                ranked[i].project_id < ranked[j].project_id
    /\ shown = Take(ranked, DisplayLimit)
    /\ (\E i \in 1..Len(hits) : Bucket(hits[i]) = 0) =>
         (Bucket(ranked[1]) = 0 /\ Bucket(shown[1]) = 0)

\* C8 as stated: every hit whose title equals the query case-insensitively
\* comes before every hit whose title only starts with the query, which comes
\* before every other hit, each bucket in the registry's order; the cut to 15
\* follows the ranking, so an exact match anywhere in the response is first.
RankingAsStated == RankedBy(BucketAsStated)

\* C8 amended: the same, with the title trimmed of surrounding whitespace
\* before it is compared with the query (a title "a " counts as an exact
\* match of the query "a", a title " ab" as a prefix match).
RankingOnTrimmedTitles == RankedBy(BucketTrimmed)

\* C8 witness: a full response of 25 hits whose last hit is the only exact
\* match has been ranked, and that hit is shown first
RankingWitness ==
  /\ rank_pc = "ranked"
  /\ Len(hits) = SearchLimit
  /\ BucketTrimmed(hits[SearchLimit]) = 0
  /\ \A i \in 1..(SearchLimit - 1) : BucketTrimmed(hits[i]) # 0
  /\ shown[1] = hits[SearchLimit]
  /\ Len(shown) = DisplayLimit

(***************************************************************************)
(* DownloadThread.run, lines 65-79                                         *)
(***************************************************************************)
RECURSIVE SumTo(_, _)
SumTo(s, n) == IF n = 0 THEN 0 ELSE SumTo(s, n - 1) + s[n]

Sum(s) == SumTo(s, Len(s))

\* Bounds of the download: at most MaxChunks chunks of at most MaxChunkLen
\* bytes (a chunk of iter_content may be empty)
MaxChunks == 3

MaxChunkLen == 2

Bodies == SeqsUpTo(0..MaxChunkLen, MaxChunks)

\* the server's content-length: absent (0), the body's size, or another one
ContentLengths(body) == {0, Sum(body), Sum(body) + 1}

InitDownload ==
  /\ dl_pc = "get"
  /\ dl_response \in {"ok", "bad_status", "exception"}
  /\ dl_chunks \in Bodies
  /\ dl_total \in ContentLengths(dl_chunks)
  /\ dl_next = 1
  /\ dl_downloaded = 0
  /\ dl_events = <<>>

DownloadIdle ==
  /\ dl_pc = "get"
  /\ dl_response = "ok"
  /\ dl_chunks = <<>>
  /\ dl_total = 0
  /\ dl_next = 1
  /\ dl_downloaded = 0
  /\ dl_events = <<>>

ProgressEvent(pct, bytes) == [signal |-> "progress", value |-> pct, at |-> bytes]

FinishedEvent == [signal |-> "finished", value |-> 0, at |-> 0]

ErrorEvent == [signal |-> "error", value |-> 0, at |-> 0]

\* a plausible slip: the percentage of the chunk, not of the bytes so far
PercentOfChunk(downloaded, chunk, total) == (chunk * 100) \div total

\* int(downloaded * 100 / total); the float quotient truncates to the integer
\* quotient for every size below 2^45 bytes
Percent(downloaded, chunk, total) == (downloaded * 100) \div total

\* except Exception as e: self.error.emit(str(e))
DlRaise ==
  /\ dl_pc' = "error"
  /\ dl_events' = Append(dl_events, ErrorEvent)

\* lines 67-71: requests.get, raise_for_status, the header, open(save_path)
DlGet ==
  /\ dl_pc = "get"
  /\ \/ /\ dl_response = "ok"
        /\ dl_pc' = "stream"
        /\ UNCHANGED dl_events
     \/ /\ dl_response # "ok"
        /\ DlRaise
  /\ UNCHANGED <<dl_response, dl_total, dl_chunks, dl_next, dl_downloaded>>

\* open(self.save_path, "wb") raises OSError
DlOpenFails ==
  /\ dl_pc = "get"
  /\ dl_response = "ok"
  /\ DlRaise
  /\ UNCHANGED <<dl_response, dl_total, dl_chunks, dl_next, dl_downloaded>>

\* lines 72-76: one chunk of iter_content
DlChunk ==
  /\ dl_pc = "stream"
  /\ dl_next <= Len(dl_chunks)
  /\ LET chunk == dl_chunks[dl_next]
         downloaded == dl_downloaded + chunk
     IN /\ dl_next' = dl_next + 1
        /\ IF chunk # 0
           THEN /\ dl_downloaded' = downloaded
                /\ dl_events' =
                     IF dl_total # 0
                     THEN Append(dl_events,
                                 ProgressEvent(Percent(downloaded, chunk, dl_total),
                                               downloaded))
                     ELSE dl_events
           ELSE UNCHANGED <<dl_downloaded, dl_events>>
  /\ UNCHANGED <<dl_pc, dl_response, dl_total, dl_chunks>>

\* the connection breaks while reading, or f.write raises
DlChunkFails ==
  /\ dl_pc = "stream"
  /\ dl_next <= Len(dl_chunks)
  /\ DlRaise
  /\ UNCHANGED <<dl_response, dl_total, dl_chunks, dl_next, dl_downloaded>>

\* line 77: the body is exhausted
DlFinished ==
  /\ dl_pc = "stream"
  /\ dl_next > Len(dl_chunks)
  /\ dl_pc' = "finished"
  /\ dl_events' = Append(dl_events, FinishedEvent)
  /\ UNCHANGED <<dl_response, dl_total, dl_chunks, dl_next, dl_downloaded>>

EventsOf(kind) == {i \in 1..Len(dl_events) : dl_events[i].signal = kind}

\* C7: with a known total size (a content-length equal to the body's size)
\* the percentages reported never decrease, each is
\* floor(bytesTransferred * 100 / bytesTotal) of the bytes received so far,
\* and on success the last one is 100 and exactly one finished event follows;
\* a failed download emits exactly one error event, no finished event, and
\* nothing after the error.
DownloadOneOutcome ==
  /\ \A i, j \in EventsOf("progress") :
       i < j => dl_events[i].value <= dl_events[j].value
  /\ \A i \in EventsOf("progress") :
       /\ dl_events[i].at \in {SumTo(dl_chunks, n) : n \in 1..(dl_next - 1)}
       /\ dl_events[i].value * dl_total <= dl_events[i].at * 100
       /\ (dl_events[i].value + 1) * dl_total > dl_events[i].at * 100
  /\ Cardinality(EventsOf("finished")) + Cardinality(EventsOf("error")) <= 1
  /\ \A i \in EventsOf("finished") \cup EventsOf("error") : i = Len(dl_events)
  /\ dl_pc = "finished" =>
       /\ Cardinality(EventsOf("finished")) = 1
       /\ (dl_total = Sum(dl_chunks) /\ dl_total # 0) =>
            /\ Len(dl_events) >= 2
            /\ dl_events[Len(dl_events) - 1] = ProgressEvent(100, dl_total)
  /\ dl_pc = "error" => Cardinality(EventsOf("error")) = 1
  /\ dl_pc \in {"get", "stream"} =>
       EventsOf("finished") \cup EventsOf("error") = {}

\* C7 witness: a download of known size reported 33, 66 and 100 per cent and
\* then finished
DownloadWitness ==
  /\ dl_pc = "finished"
  /\ dl_total = Sum(dl_chunks)
  /\ dl_events = <<ProgressEvent(33, 1), ProgressEvent(66, 2),
                   ProgressEvent(100, 3), FinishedEvent>>

(***************************************************************************)
(* FolderScannerWorker.run, lines 197-295, and get_file_hash               *)
(***************************************************************************)
\* a key a dict does not hold, a field a JSON object does not have
Missing == "<missing>"

\* the status texts: "Неизвестно", "Загружен", "Актуально", and
\* f"Обновление! ({installed} -> {latest})"
StatusUnknown == <<"Unrecognized">>

StatusInstalled == <<"Installed">>

StatusUpToDate == <<"UpToDate">>

StatusUpdate(installed, latest) == <<"Update!", installed, latest>>

\* f.endswith('.jar')
JarNames == {"a.jar", "b.jar", "older.jar", "old.jar", "new.jar", "beta.jar"}

IsJar(f) == f \in JarNames

\* get_file_hash: the SHA-1 of the content (equal contents, equal digests),
\* None when the file cannot be read
get_file_hash(dir, f) == IF dir[f] = "unreadable" THEN Missing ELSE dir[f]

\* lines 202-208: hash_to_file[h] = f for every readable .jar file, in
\* os.listdir's order, which is arbitrary: of several files with one content
\* the last listed stays
HashToFileChoices(dir) ==
  LET jars == {f \in DOMAIN dir : IsJar(f) /\ get_file_hash(dir, f) # Missing}
      hashes == {get_file_hash(dir, f) : f \in jars}
  IN {m \in [hashes -> jars] : \A h \in hashes : get_file_hash(dir, m[h]) = h}

\* the registry: the project and version that a content is a release of
\* h0, h1 and h9 are three releases of project P1 (older.jar, old.jar and the
\* latest, new.jar), h2 is a release of project P2; no other content is known
KnownHashes == {"h0", "h1", "h9", "h2"}

ProjectOf(h) == IF h \in {"h0", "h1", "h9"} THEN "P1" ELSE "P2"

VersionIdOf(h) ==
  CASE h = "h0" -> "v0"
    [] h = "h1" -> "v1"
    [] h = "h9" -> "v9"
    [] OTHER -> "v2"

VersionNumberOf(h) ==
  CASE h = "h0" -> "0.9"
    [] h = "h9" -> "2.0"
    [] OTHER -> "1.0"

TitleOf(p) == IF p = "P1" THEN "Mod One" ELSE "Mod Two"

RegistryVersion(h) ==
  [project_id |-> ProjectOf(h), id |-> VersionIdOf(h),
   version_number |-> VersionNumberOf(h)]

\* POST /version_files: what the registry may answer for one hash: nothing,
\* its version, or a version object lacking a field
VersionFileAnswers(h) ==
  LET good == RegistryVersion(h)
  IN {good, [good EXCEPT !.project_id = Missing],
      [good EXCEPT !.version_number = Missing], [good EXCEPT !.id = Missing]}

\* every 200 answer to POST /version_files for the hashes asked
BatchAnswers(hashes) ==
  UNION {[known -> UNION {VersionFileAnswers(h) : h \in known}] :
           known \in SUBSET hashes}

WellFormedBatch(answer) ==
  \A h \in DOMAIN answer : answer[h] \in VersionFileAnswers(h)

\* GET /project/{id}/version: an exception, a non-200 answer, or a 200 answer
\* with a list of versions; a listed version may lack a field, its files may
\* be empty, and a file may lack its filename
\* a version object without "files" (latest['files'] raises KeyError), written
\* as a list whose only file has no field: latest['files'][0]['url'] raises
\* KeyError at the same statement
NoFiles == <<[url |-> Missing, filename |-> Missing]>>

OlderVersion(v_data) ==
  [id |-> "v0", version_number |-> "0.9",
   files |-> <<[url |-> "url/old", filename |-> "old.jar"]>>]

LatestVersions(v_data) ==
  [id : {v_data.id, "v9", Missing},
   version_number : {"2.0", Missing},
   files : {NoFiles, <<>>, <<[url |-> "url/new", filename |-> "new.jar"]>>,
            <<[url |-> "url/new", filename |-> Missing]>>}]

NoListing == [status |-> "not fetched", versions |-> <<>>]

Listings(v_data) ==
  {[status |-> "exception", versions |-> <<>>],
   [status |-> "not 200", versions |-> <<>>],
   [status |-> "200", versions |-> <<>>]}
  \cup {[status |-> "200", versions |-> <<latest, OlderVersion(v_data)>>] :
          latest \in LatestVersions(v_data)}

\* lines 244-250
UnknownResult(filename) ==
  [title |-> filename, display_name |-> filename, author |-> "-",
   version |-> "-", status |-> StatusUnknown, url |-> Missing,
   filename |-> Missing, needs_update |-> Missing, project_id |-> Missing]

Returned(res) == [raised |-> FALSE, res |-> res]

Raised == [raised |-> TRUE, res |-> UnknownResult(Missing)]

\* a plausible slip: the update check compares version numbers, not ids
CheckUpdateByNumber(result, v_data, listing) ==
  IF listing.status # "200" \/ listing.versions = <<>> THEN result
  ELSE LET latest == listing.versions[1]
       IN IF latest.version_number = Missing THEN result
          ELSE IF latest.version_number = v_data.version_number
               THEN [result EXCEPT !.status = StatusUpToDate]
          ELSE [result EXCEPT
                  !.status = StatusUpdate(v_data.version_number,
                                          latest.version_number)]

\* lines 262-281: the try block of the update check; an exception leaves
\* result as it is at the statement that raised
CheckUpdate(result, v_data, listing) ==
  IF listing.status # "200" \/ listing.versions = <<>> THEN result
  ELSE LET latest == listing.versions[1]
       IN IF latest.id = Missing \/ v_data.id = Missing THEN result
          ELSE IF latest.id = v_data.id
               THEN [result EXCEPT !.status = StatusUpToDate]
          ELSE IF latest.version_number = Missing THEN result
          ELSE LET r1 == [result EXCEPT
                            !.status = StatusUpdate(v_data.version_number,
                                                    latest.version_number)]
               IN IF latest.files = <<>> THEN r1
                  ELSE IF latest.files[1].url = Missing THEN r1
                  ELSE LET r2 == [r1 EXCEPT !.url = latest.files[1].url]
                       IN IF latest.files[1].filename = Missing THEN r2
                          ELSE [r2 EXCEPT
                                  !.filename = latest.files[1].filename,
                                  !.needs_update = "True"]

\* lines 242-283
process_one_mod(f_hash, filename, recog, names, chk, listing) ==
  IF f_hash \notin DOMAIN recog THEN Returned(UnknownResult(filename))
  ELSE LET v_data == recog[f_hash]
           p_id == v_data.project_id
       IN IF v_data.version_number = Missing THEN Raised
          ELSE LET result ==
                     [UnknownResult(filename) EXCEPT
                        !.title = IF p_id \in DOMAIN names THEN names[p_id]
                                  ELSE filename,
                        !.author = "Modrinth",
                        !.version = v_data.version_number,
                        !.status = StatusInstalled]
               IN Returned(IF chk THEN CheckUpdate(result, v_data, listing)
                           ELSE result)

\* the folders scanned: a.jar and b.jar, each absent or with one of two
\* contents or unreadable, and possibly a file that is no .jar
ScanFileNames == {"a.jar", "b.jar", "notes.txt"}

Contents == {"h1", "h2"}

ScanDirs ==
  UNION {[names -> Contents \cup {"unreadable"}] : names \in SUBSET ScanFileNames}

EmptyMap == [x \in {} |-> x]

InitScan ==
  /\ scan_exists \in BOOLEAN
  /\ scan_dir \in ScanDirs
  /\ scan_exists = FALSE => scan_dir = EmptyMap
  /\ check_updates \in BOOLEAN
  /\ scan_pc = "start"
  /\ hash_to_file = EmptyMap
  /\ recognized = EmptyMap
  /\ project_names = EmptyMap
  /\ scan_todo = {}
  /\ scan_log = <<>>

ScanIdle ==
  /\ scan_exists = FALSE
  /\ scan_dir = EmptyMap
  /\ check_updates = FALSE
  /\ scan_pc = "start"
  /\ hash_to_file = EmptyMap
  /\ recognized = EmptyMap
  /\ project_names = EmptyMap
  /\ scan_todo = {}
  /\ scan_log = <<>>

ModFound(res, h, listing) ==
  [signal |-> "mod_found", res |-> res, f_hash |-> h, listing |-> listing]

Finished ==
  [signal |-> "finished", res |-> UnknownResult(Missing), f_hash |-> Missing,
   listing |-> NoListing]

\* lines 198-212
ScanStart ==
  /\ scan_pc = "start"
  /\ IF ~scan_exists
     THEN /\ scan_log' = Append(scan_log, Finished)
          /\ scan_pc' = "returned"
          /\ UNCHANGED hash_to_file
     ELSE /\ hash_to_file' \in HashToFileChoices(scan_dir)
          /\ IF hash_to_file' = EmptyMap
             THEN /\ scan_log' = Append(scan_log, Finished)
                  /\ scan_pc' = "returned"
             ELSE /\ scan_pc' = "resolve"
                  /\ UNCHANGED scan_log
  /\ UNCHANGED <<scan_exists, scan_dir, check_updates, recognized,
                 project_names, scan_todo>>

\* lines 228-229 after the batch call: v['project_id'] of every value; an
\* object without the field raises KeyError outside every try
AfterResolve(recog) ==
  IF \E h \in DOMAIN recog : recog[h].project_id = Missing
  THEN /\ scan_pc' = "raised"
       /\ UNCHANGED scan_todo
  ELSE IF DOMAIN recog = {}
       THEN /\ scan_pc' = "pool"
            /\ scan_todo' = DOMAIN hash_to_file
       ELSE /\ scan_pc' = "names"
            /\ UNCHANGED scan_todo

\* lines 214-229, the batch call answering 200
ScanResolve ==
  /\ scan_pc = "resolve"
  /\ recognized' \in BatchAnswers(DOMAIN hash_to_file)
  /\ AfterResolve(recognized')
  /\ UNCHANGED <<scan_exists, scan_dir, check_updates, hash_to_file,
                 project_names, scan_log>>

\* lines 214-229, the batch call raising or answering another status
ScanResolveFails ==
  /\ scan_pc = "resolve"
  /\ recognized' = EmptyMap
  /\ AfterResolve(recognized')
  /\ UNCHANGED <<scan_exists, scan_dir, check_updates, hash_to_file,
                 project_names, scan_log>>

\* lines 229-240: the titles of the projects, or nothing when the call fails
ScanNames ==
  /\ scan_pc = "names"
  /\ LET u_ids == {recognized[h].project_id : h \in DOMAIN recognized}
     IN project_names' \in {[p \in u_ids |-> TitleOf(p)], EmptyMap}
  /\ scan_pc' = "pool"
  /\ scan_todo' = DOMAIN hash_to_file
  /\ UNCHANGED <<scan_exists, scan_dir, check_updates, hash_to_file,
                 recognized, scan_log>>

\* the version listing process_one_mod fetches for an item, if it fetches
ListingsFor(h) ==
  IF h \in DOMAIN recognized /\ recognized[h].version_number # Missing
     /\ check_updates
  THEN Listings(recognized[h])
  ELSE {NoListing}

\* lines 286-293: one future completes; its result is emitted, its exception
\* is dropped
ScanProcess ==
  /\ scan_pc = "pool"
  /\ \E h \in scan_todo : \E listing \in ListingsFor(h) :
       LET out == process_one_mod(h, hash_to_file[h], recognized,
                                  project_names, check_updates, listing)
       IN /\ scan_todo' = scan_todo \ {h}
          /\ scan_log' = IF out.raised THEN scan_log
                         ELSE Append(scan_log, ModFound(out.res, h, listing))
  /\ UNCHANGED <<scan_exists, scan_dir, check_updates, scan_pc, hash_to_file,
                 recognized, project_names>>

\* line 295
ScanFinish ==
  /\ scan_pc = "pool"
  /\ scan_todo = {}
  /\ scan_log' = Append(scan_log, Finished)
  /\ scan_pc' = "returned"
  /\ UNCHANGED <<scan_exists, scan_dir, check_updates, hash_to_file,
                 recognized, project_names, scan_todo>>

(***************************************************************************)
(* ModSearchWorker.run, lines 123-179: the version of every candidate      *)
(***************************************************************************)
\* Bounds of the search's inputs: the hits of a response and the versions of
\* a listing
MaxHits == 2

MaxVersions == 2

VersionTypes == {"release", "beta", "alpha"}

\* the i-th version of a listing, of the given type, with one file
ListedVersion(i, type) ==
  [version_type |-> type, version_number |-> <<"n", i>>,
   files |-> <<[url |-> <<"url", i>>, filename |-> <<"file", i>>]>>]

\* the listings of up to MaxVersions versions with any types, the listing of
\* one release that has no file, and the answers that are no listing
VersionListings ==
  {[status |-> "exception", versions |-> <<>>],
   [status |-> "not 200", versions |-> <<>>],
   [status |-> "200", versions |-> <<>>],
   [status |-> "200",
    versions |-> <<[ListedVersion(1, "release") EXCEPT !.files = <<>>]>>]}
  \cup UNION {{[status |-> "200",
                versions |-> [i \in 1..n |-> ListedVersion(i, types[i])]] :
                 types \in [1..n -> VersionTypes]} : n \in 1..MaxVersions}

\* the hits of a response, numbered by project_id
HitsOf(n) ==
  [i \in 1..n |-> [project_id |-> i, title |-> "Mod", author |-> "author"]]

\* a response of one hit more than is shown, where the first, the last shown
\* and the one cut off have a release and the others' listings fail
LongInput ==
  [hits |-> HitsOf(DisplayLimit + 1),
   answers |-> [i \in 1..(DisplayLimit + 1) |->
                  IF i \in {1, DisplayLimit, DisplayLimit + 1}
                  THEN [status |-> "200",
                        versions |-> <<ListedVersion(1, "release")>>]
                  ELSE [status |-> "not 200", versions |-> <<>>]]]

\* up to MaxHits hits with any listings, or the long response
InitFetch ==
  /\ \/ \E n \in 0..MaxHits :
          /\ search_hits = HitsOf(n)
          /\ version_answers \in [1..n -> VersionListings]
     \/ /\ search_hits = LongInput.hits
        /\ version_answers = LongInput.answers
  /\ fetch_todo = {}
  /\ search_results = <<>>
  /\ fetch_pc = "sorted"

FetchIdle ==
  /\ search_hits = <<>>
  /\ version_answers = <<>>
  /\ fetch_todo = {}
  /\ search_results = <<>>
  /\ fetch_pc = "sorted"

\* the index of the first version of the type, 0 when there is none
RECURSIVE FirstOfType(_, _, _)
FirstOfType(versions, type, i) ==
  IF i > Len(versions) THEN 0
  ELSE IF versions[i].version_type = type THEN i
  ELSE FirstOfType(versions, type, i + 1)

\* a plausible slip: the first version is taken whatever its type
SelectFirst(versions) == versions[1]

\* lines 142-156: selected_v
SelectVersion(versions) ==
  IF FirstOfType(versions, "release", 1) # 0
  THEN versions[FirstOfType(versions, "release", 1)]
  ELSE IF FirstOfType(versions, "beta", 1) # 0
  THEN versions[FirstOfType(versions, "beta", 1)]
  ELSE versions[1]

\* lines 126-170: fetch_ver, <<the record>> or <<>> for None
fetch_ver(hit, answer) ==
  IF answer.status # "200" \/ answer.versions = <<>> THEN <<>>
  ELSE LET selected_v == SelectVersion(answer.versions)
       IN IF selected_v.files = <<>> THEN <<>>
          ELSE <<[title |-> hit.title,
                  author |-> hit.author,
                  version |-> selected_v.version_number,
                  project_id |-> hit.project_id,
                  url |-> selected_v.files[1].url,
                  filename |-> selected_v.files[1].filename,
                  status |-> <<"Available">>,
                  needs_update |-> "False"]>>

\* lines 123-124 and 172-173: the cut to 15 and the submission to the pool
FetchCut ==
  /\ fetch_pc = "sorted"
  /\ search_hits' = Take(search_hits, DisplayLimit)
  /\ fetch_todo' = 1..Len(search_hits')
  /\ fetch_pc' = "pool"
  /\ UNCHANGED <<version_answers, search_results>>

\* lines 174-177: a future completes and its record, if any, is appended
FetchCompletes ==
  /\ fetch_pc = "pool"
  /\ \E i \in fetch_todo :
       /\ search_results' =
            search_results
            \o fetch_ver(search_hits[i],
                         version_answers[search_hits[i].project_id])
       /\ fetch_todo' = fetch_todo \ {i}
  /\ UNCHANGED <<search_hits, version_answers, fetch_pc>>

\* line 179: results_ready.emit(results, True)
FetchEmit ==
  /\ fetch_pc = "pool"
  /\ fetch_todo = {}
  /\ fetch_pc' = "emitted"
  /\ UNCHANGED <<search_hits, version_answers, fetch_todo, search_results>>

\* the records of results for a project
RecordsOf(p) == {k \in 1..Len(search_results) : search_results[k].project_id = p}

\* the version the priority names: the first release if there is one, else
\* the first beta if there is one, else the first version
Preferred(versions) ==
  LET Of(type) == {i \in 1..Len(versions) : versions[i].version_type = type}
      First(S) == CHOOSE i \in S : \A j \in S : i <= j
  IN IF Of("release") # {} THEN versions[First(Of("release"))]
     ELSE IF Of("beta") # {} THEN versions[First(Of("beta"))]
     ELSE versions[1]

\* a listing that succeeded, is not empty, and whose preferred version has a
\* file
Usable(answer) ==
  /\ answer.status = "200"
  /\ answer.versions # <<>>
  /\ Preferred(answer.versions).files # <<>>

\* C17: once the results are emitted, every candidate with a usable listing
\* has exactly one record, carrying the number, the URL and the filename of
\* the first release, else of the first beta, else of the first version; a
\* candidate whose listing is empty, non-200 or failed has none; no record is
\* of a hit outside the candidates; and the records are at most 15.
FetchSelectsByPriority ==
  fetch_pc = "emitted" =>
    /\ \A i \in 1..Len(search_hits) :
         LET p == search_hits[i].project_id
             answer == version_answers[p]
         IN IF Usable(answer)
            THEN /\ Cardinality(RecordsOf(p)) = 1
                 /\ \A k \in RecordsOf(p) :
                      LET v == Preferred(answer.versions)
                      IN /\ search_results[k].version = v.version_number
                         /\ search_results[k].url = v.files[1].url
                         /\ search_results[k].filename = v.files[1].filename
                         /\ search_results[k].needs_update = "False"
            ELSE RecordsOf(p) = {}
    /\ \A k \in 1..Len(search_results) :
         \E i \in 1..Len(search_hits) : search_hits[i].project_id = search_results[k].project_id
    /\ Len(search_hits) <= DisplayLimit
    /\ Len(search_results) <= Len(search_hits)

\* C17 witness: two search_hits; the first, whose listing is a beta followed by
\* a release, has the release's record; the second, whose listing answered
\* non-200, has none.
FetchWitness ==
  /\ fetch_pc = "emitted"
  /\ Len(search_hits) = 2
  /\ version_answers[1].status = "200"
  /\ Len(version_answers[1].versions) = 2
  /\ version_answers[1].versions[1].version_type = "beta"
  /\ version_answers[1].versions[2].version_type = "release"
  /\ version_answers[2].status = "not 200"
  /\ Len(search_results) = 1
  /\ search_results[1].project_id = 1
  /\ search_results[1].version = <<"n", 2>>

(***************************************************************************)
(* ModManagerApp: the table, the folder and search handlers, download()    *)
(* with its stale-file sweep, and the download threads it starts           *)
(***************************************************************************)
\* the registry's versions of a project, newest first, each with its file
ProjectVersions(p) ==
  IF p = "P1"
  THEN <<[id |-> "v9", version_number |-> "2.0",
          files |-> <<[url |-> "url/new", filename |-> "new.jar"]>>],
         [id |-> "v1", version_number |-> "1.0",
          files |-> <<[url |-> "url/old", filename |-> "old.jar"]>>],
         [id |-> "v0", version_number |-> "0.9",
          files |-> <<[url |-> "url/older", filename |-> "older.jar"]>>]>>
  ELSE <<[id |-> "v2", version_number |-> "1.0",
          files |-> <<[url |-> "url/two", filename |-> "two.jar"]>>]>>

\* the content served at a download URL; only the latest file of P1 is offered
ContentAt(url) == "h9"

\* the content of a file that a DownloadThread has opened and not completed
Partial == "partial"

\* the registry answering every call, with what it holds
TrueBatch(hashes) ==
  [h \in hashes \cap KnownHashes |-> RegistryVersion(h)]

TrueNames(recog) ==
  [p \in {recog[h].project_id : h \in DOMAIN recog} |-> TitleOf(p)]

TrueListing(p) == [status |-> "200", versions |-> ProjectVersions(p)]

\* the record fetch_ver builds for a hit of project P1 (lines 158-167)
SearchRecord ==
  [title |-> TitleOf("P1"), display_name |-> Missing, author |-> "author",
   version |-> "2.0", status |-> <<"Available">>, url |-> "url/new",
   filename |-> "new.jar", needs_update |-> "False", project_id |-> "P1"]

\* bool(res.get(key))
Truthy(x) == x = "True"

\* lines 570-626: the row added for a record; the button exists when the
\* record has a url (and a filename: res["filename"] raises otherwise, after
\* the row was inserted). op notes the worker whose record it is (0: none)
add_mod_to_table(tbl, res) ==
  LET has_btn == res.url # Missing /\ res.filename # Missing
  IN Append(tbl,
            [name |-> IF res.display_name # Missing THEN res.display_name
                      ELSE res.title,
             btn |-> IF ~has_btn THEN "none"
                     ELSE IF Truthy(res.needs_update) THEN "Update"
                     ELSE "Download",
             enabled |-> has_btn,
             project_id |-> res.project_id,
             url |-> res.url,
             filename |-> res.filename,
             needs_update |-> Truthy(res.needs_update),
             op |-> 0])

\* line 593: self.update_all_btn.show()
ShownAfter(btns, res) ==
  [btns EXCEPT !.update_all = @ \/ Truthy(res.needs_update)]

\* set_loading(True) and set_loading(False), lines 473-484
Loading(btns) == [btns EXCEPT !.scan = FALSE, !.search = FALSE]

NotLoading(btns) == [btns EXCEPT !.scan = (mods_folder # ""), !.search = TRUE]

\* self.table.setRowCount(0): the rows and their widgets are deleted; the
\* slots of the downloads in flight keep the deleted button
TableCleared(dls) == [i \in 1..Len(dls) |-> [dls[i] EXCEPT !.detached = TRUE]]

\* a plausible slip: the sweep does not spare the file about to be written
SparesNothing(f, filename) == TRUE

\* f != filename, lines 693, 715 and 734
NotTheNewFile(f, filename) == f # filename

NoSweep ==
  [ran |-> FALSE, filename |-> Missing, project_id |-> Missing,
   batch |-> "none", fallback |-> "none", valid_filenames |-> {},
   qualified |-> {}, deleted |-> {}, failed |-> Missing]

\* os.remove on every file of qualified, in the order of the iteration, until
\* one raises: all of them are gone, or the removal of one failed and any
\* part of the others is gone when the sweep ends
RemovalsOf(qualified) ==
  {[deleted |-> qualified, failed |-> Missing]}
  \cup UNION {{[deleted |-> gone, failed |-> f] :
                 gone \in SUBSET (qualified \ {f})} : f \in qualified}

\* lines 721-737: the filename-based pass. The version listing raises, answers
\* another status, or answers 200 with versions whose files carry any names
FallbackOutcomes(dir, filename, project_id, batch) ==
  LET base == [ran |-> TRUE, filename |-> filename, project_id |-> project_id,
               batch |-> batch, fallback |-> "none", valid_filenames |-> {},
               qualified |-> {}, deleted |-> {}, failed |-> Missing]
  IN {[base EXCEPT !.fallback = "exception"],
      [base EXCEPT !.fallback = "not 200"]}
     \cup UNION {
       LET qualified == {f \in DOMAIN dir :
                           f \in valid_filenames /\ NotTheNewFile(f, filename)}
       IN {[base EXCEPT !.fallback = "200",
                        !.valid_filenames = valid_filenames,
                        !.qualified = qualified,
                        !.deleted = r.deleted,
                        !.failed = r.failed] : r \in RemovalsOf(qualified)}
       : valid_filenames \in SUBSET (DOMAIN dir) }

\* what POST /version_files may answer 200 with for the sweep: any of the
\* hashes, each with the project_id of one of two projects
SweepAnswers(hashes) ==
  UNION {[known -> {"P1", "P2"}] : known \in SUBSET hashes}

\* lines 690-739: the sweep of download()
SweepOutcomes(dir, filename, project_id) ==
  LET candidate_files == {f \in DOMAIN dir : IsJar(f) /\ NotTheNewFile(f, filename)}
      candidates == [f \in candidate_files |-> dir[f]]
      base == [ran |-> TRUE, filename |-> filename, project_id |-> project_id,
               batch |-> "none", fallback |-> "none", valid_filenames |-> {},
               qualified |-> {}, deleted |-> {}, failed |-> Missing]
  IN UNION {
       IF h2f = EmptyMap
       THEN FallbackOutcomes(dir, filename, project_id, "none")
       ELSE {[base EXCEPT !.batch = "exception"]}
            \cup FallbackOutcomes(dir, filename, project_id, "not 200")
            \cup UNION {
              LET qualified ==
                    {h2f[h] : h \in {k \in DOMAIN answer :
                                       /\ answer[k] = project_id
                                       /\ NotTheNewFile(h2f[k], filename)}}
              IN {[base EXCEPT !.batch = "200", !.qualified = qualified,
                               !.deleted = r.deleted,
                               !.failed = r.failed] : r \in RemovalsOf(qualified)}
              : answer \in SweepAnswers(DOMAIN h2f) }
       : h2f \in HashToFileChoices(candidates) }

Remove(dir, gone) == [f \in DOMAIN dir \ gone |-> dir[f]]

\* line 683
SaveDir(row) ==
  IF row.btn = "Update" \/ download_folder = "" THEN mods_folder
  ELSE download_folder

\* a click reaches download() when the row has an enabled button
Clickable(tbl, r) == tbl[r].btn \in {"Download", "Update"} /\ tbl[r].enabled

\* lines 675-760: download() for the button of row r, on the state
\* st = [fs, table, dls]; every state it may leave. The thread it starts
\* carries the account of its sweep
download(st, r) ==
  LET row == st.table[r]
      is_update == row.btn = "Update"
      save_dir == SaveDir(row)
      sweeps == IF row.project_id # Missing /\ is_update /\ row.needs_update
                THEN SweepOutcomes(st.fs[save_dir], row.filename, row.project_id)
                ELSE {NoSweep}
      downloader == [dir |-> save_dir, filename |-> row.filename,
                     url |-> row.url, st |-> "started", row |-> r,
                     update |-> is_update /\ row.needs_update,
                     original |-> row.name, sweep |-> NoSweep,
                     detached |-> FALSE]
  IN IF save_dir = "" THEN {st}
     ELSE {[fs |-> [st.fs EXCEPT ![save_dir] = Remove(@, sw.deleted)],
            table |-> [st.table EXCEPT ![r].enabled = FALSE],
            dls |-> Append(st.dls, [downloader EXCEPT !.sweep = sw])] :
          sw \in sweeps}

\* lines 668-673: a click on every "Обновить" button, in row order; a click
\* on a disabled button does nothing
RECURSIVE ClickUpdates(_, _)
ClickUpdates(st, r) ==
  IF r > Len(st.table) THEN {st}
  ELSE IF st.table[r].btn = "Update" /\ Clickable(st.table, r)
       THEN UNION {ClickUpdates(st2, r + 1) : st2 \in download(st, r)}
       ELSE ClickUpdates(st, r + 1)

GuiState ==
  [fs |-> fs, table |-> table, dls |-> active_downloads]

\* Bounds of the application: the downloads started, and the rows added when
\* download() is driven on its own
MaxDownloads == 2

MaxRows == 2

\* the operations (folder selections, scans, searches) the user starts
MaxOperations == 2

NoWorker == <<>>

InitButtons == [scan |-> FALSE, search |-> TRUE, update_all |-> FALSE]

\* the mods folder at the start: old.jar and older.jar, two superseded
\* releases of P1, each present or not
AppDirs ==
  {[f \in names |-> IF f = "old.jar" THEN "h1" ELSE "h0"] :
     names \in SUBSET {"old.jar", "older.jar"}}

\* __init__ and load_settings, lines 351-380
InitApp ==
  /\ mods_folder = ""
  /\ download_folder \in {"", "dl"}
  /\ fs \in {[mods |-> d, dl |-> EmptyMap] : d \in AppDirs}
  /\ table = <<>>
  /\ buttons = InitButtons
  /\ worker = NoWorker
  /\ signals = <<>>
  /\ active_downloads = <<>>

AppIdle ==
  /\ mods_folder = ""
  /\ download_folder = ""
  /\ fs = [mods |-> EmptyMap, dl |-> EmptyMap]
  /\ table = <<>>
  /\ buttons = InitButtons
  /\ worker = NoWorker
  /\ signals = <<>>
  /\ active_downloads = <<>>

\* the worker is the one self.scanner, or self.worker, refers to: the last
\* started of its kind
Referenced(i) ==
  \A j \in (i + 1)..Len(worker) : worker[j].kind # worker[i].kind

\* the process has not been aborted
Alive == \A i \in 1..Len(worker) : worker[i].pc # "aborted"

\* a thread is created and started; its position numbers the operation
WithWorker(kind, chk) ==
  Append(worker, [kind |-> kind, chk |-> chk, pc |-> "run"])

\* lines 491-498: a folder was chosen in the dialog
_set_scan_path ==
  /\ Len(worker) < MaxOperations
  /\ mods_folder' = "mods"
  /\ buttons' = [buttons EXCEPT !.scan = TRUE]
  /\ table' = <<>>
  /\ active_downloads' = TableCleared(active_downloads)
  /\ worker' = WithWorker("scan", FALSE)
  /\ UNCHANGED <<download_folder, fs, signals>>

\* lines 500-509: the click on scan_btn
scan_folder ==
  /\ Len(worker) < MaxOperations
  /\ buttons.scan
  /\ mods_folder # ""
  /\ table' = <<>>
  /\ active_downloads' = TableCleared(active_downloads)
  /\ buttons' = Loading([buttons EXCEPT !.update_all = FALSE])
  /\ worker' = WithWorker("scan", TRUE)
  /\ UNCHANGED <<mods_folder, download_folder, fs, signals>>

\* lines 511-516
select_download_folder ==
  /\ download_folder = ""
  /\ download_folder' = "dl"
  /\ UNCHANGED <<mods_folder, fs, table, buttons, worker, signals,
                 active_downloads>>

\* lines 553-568: return pressed in the search field, or the search button
start_search ==
  /\ Len(worker) < MaxOperations
  /\ table' = <<>>
  /\ active_downloads' = TableCleared(active_downloads)
  /\ buttons' = Loading([buttons EXCEPT !.update_all = FALSE])
  /\ worker' = WithWorker("search", FALSE)
  /\ UNCHANGED <<mods_folder, download_folder, fs, signals>>

\* a signal emitted by worker op and queued for the GUI thread
Signal(kind, res, ok, op) ==
  [signal |-> kind, results |-> res, ok |-> ok, op |-> op]

\* the orders in which the futures of a set of items may complete
RECURSIVE Orders(_)
Orders(S) ==
  IF S = {} THEN {<<>>}
  ELSE UNION {{<<x>> \o rest : rest \in Orders(S \ {x})} : x \in S}

\* FolderScannerWorker.run on a folder, with the registry answering every
\* call: the signals worker op emits
ScanSignals(dir, chk, op) ==
  UNION {
    IF h2f = EmptyMap THEN {<<Signal("finished", <<>>, TRUE, op)>>}
    ELSE LET recog == TrueBatch(DOMAIN h2f)
             names == TrueNames(recog)
             Out(h) == process_one_mod(h, h2f[h], recog, names, chk,
                                       TrueListing(ProjectOf(h))).res
         IN {[i \in 1..(Len(order) + 1) |->
                IF i <= Len(order)
                THEN Signal("mod_found", <<Out(order[i])>>, TRUE, op)
                ELSE Signal("finished", <<>>, TRUE, op)] :
               order \in Orders(DOMAIN h2f)}
    : h2f \in HashToFileChoices(dir) }

\* a scanner thread runs
WorkerScans ==
  /\ \E i \in 1..Len(worker) :
       /\ worker[i].kind = "scan"
       /\ worker[i].pc = "run"
       /\ \E emitted \in ScanSignals(fs[mods_folder], worker[i].chk, i) :
            signals' = signals \o emitted
       /\ worker' = [worker EXCEPT ![i].pc = "done"]
  /\ UNCHANGED <<mods_folder, download_folder, fs, table, buttons,
                 active_downloads>>

\* a search thread runs: the search fails, or it finds P1, or nothing
WorkerSearches ==
  /\ \E i \in 1..Len(worker) :
       /\ worker[i].kind = "search"
       /\ worker[i].pc = "run"
       /\ \E emitted \in {Signal("results_ready", <<>>, FALSE, i),
                          Signal("results_ready", <<>>, TRUE, i),
                          Signal("results_ready", <<SearchRecord>>, TRUE, i)} :
            signals' = Append(signals, emitted)
       /\ worker' = [worker EXCEPT ![i].pc = "done"]
  /\ UNCHANGED <<mods_folder, download_folder, fs, table, buttons,
                 active_downloads>>

\* self.scanner = ... and self.worker = ... release the thread object the
\* attribute held. A QThread deleted while it runs ends the process
\* ("QThread: Destroyed while thread is still running"); whether a released
\* thread is deleted before its run() returns is not decided by this code
WorkerDestroyedRunning ==
  /\ \E i \in 1..Len(worker) :
       /\ worker[i].pc = "run"
       /\ ~Referenced(i)
       /\ worker' = [worker EXCEPT ![i].pc = "aborted"]
  /\ UNCHANGED <<mods_folder, download_folder, fs, table, buttons, signals,
                 active_downloads>>

\* a queued signal of a released thread whose object is deleted before the
\* GUI thread handles it is not delivered
SignalOfDeletedSender ==
  /\ signals # <<>>
  /\ ~Referenced(Head(signals).op)
  /\ signals' = Tail(signals)
  /\ UNCHANGED <<mods_folder, download_folder, fs, table, buttons, worker,
                 active_downloads>>

\* the row add_mod_to_table appended, marked with the worker of its record
AddedBy(tbl, op) == [tbl EXCEPT ![Len(tbl)].op = op]

\* the slot of mod_found: add_mod_to_table
OnModFound ==
  /\ signals # <<>>
  /\ Head(signals).signal = "mod_found"
  /\ table' = AddedBy(add_mod_to_table(table, Head(signals).results[1]),
                      Head(signals).op)
  /\ buttons' = ShownAfter(buttons, Head(signals).results[1])
  /\ signals' = Tail(signals)
  /\ UNCHANGED <<mods_folder, download_folder, fs, worker, active_downloads>>

\* the slot of the scanner's finished: set_loading(False) for a scanner that
\* scan_folder started, nothing for one that _set_scan_path started
OnScanFinished ==
  /\ signals # <<>>
  /\ Head(signals).signal = "finished"
  /\ buttons' = IF worker[Head(signals).op].chk THEN NotLoading(buttons)
                ELSE buttons
  /\ signals' = Tail(signals)
  /\ UNCHANGED <<mods_folder, download_folder, fs, table, worker,
                 active_downloads>>

\* start_search's on_done, lines 562-565, for at most one record
OnResultsReady ==
  /\ signals # <<>>
  /\ Head(signals).signal = "results_ready"
  /\ LET res == Head(signals).results
     IN IF Head(signals).ok /\ res # <<>>
        THEN /\ table' = AddedBy(add_mod_to_table(table, res[1]),
                                 Head(signals).op)
             /\ buttons' = NotLoading(ShownAfter(buttons, res[1]))
        ELSE /\ buttons' = NotLoading(buttons)
             /\ UNCHANGED table
  /\ signals' = Tail(signals)
  /\ UNCHANGED <<mods_folder, download_folder, fs, worker, active_downloads>>

Becomes(st) ==
  /\ fs' = st.fs
  /\ table' = st.table
  /\ active_downloads' = st.dls

\* a click on the button of a row
ClickDownload ==
  /\ Len(active_downloads) < MaxDownloads
  /\ \E r \in 1..Len(table) :
       /\ Clickable(table, r)
       /\ \E st \in download(GuiState, r) : Becomes(st)
  /\ UNCHANGED <<mods_folder, download_folder, buttons, worker, signals>>

\* lines 630-673 with the backup option unchecked, as it is at the start
update_all_mods ==
  /\ buttons.update_all
  /\ Len(active_downloads)
       + Cardinality({r \in 1..Len(table) :
                        table[r].btn = "Update" /\ Clickable(table, r)})
       <= MaxDownloads
  /\ \E st \in ClickUpdates(GuiState, 1) : Becomes(st)
  /\ UNCHANGED <<mods_folder, download_folder, buttons, worker, signals>>

ThreadStep(i, st2) ==
  active_downloads' = [active_downloads EXCEPT ![i].st = st2]

\* DownloadThread.run, lines 67-71: the response is good and the file opened
\* for writing, which empties it
ThreadOpens ==
  /\ \E i \in 1..Len(active_downloads) :
       LET t == active_downloads[i]
       IN /\ t.st = "started"
          /\ ThreadStep(i, "writing")
          /\ fs' = [fs EXCEPT ![t.dir] =
                      [f \in DOMAIN @ \cup {t.filename} |->
                         IF f = t.filename THEN Partial ELSE @[f]]]
  /\ UNCHANGED <<mods_folder, download_folder, table, buttons, worker,
                 signals>>

\* lines 72-77: the last chunk is written and finished is emitted. A file
\* removed from the folder while it was open stays removed
ThreadCompletes ==
  /\ \E i \in 1..Len(active_downloads) :
       LET t == active_downloads[i]
       IN /\ t.st = "writing"
          /\ ThreadStep(i, "finished emitted")
          /\ fs' = [fs EXCEPT ![t.dir] =
                      [f \in DOMAIN @ |->
                         IF f = t.filename THEN ContentAt(t.url) ELSE @[f]]]
  /\ UNCHANGED <<mods_folder, download_folder, table, buttons, worker,
                 signals>>

\* lines 78-79: the request, the open or a chunk raises and error is emitted
ThreadFails ==
  /\ \E i \in 1..Len(active_downloads) :
       /\ active_downloads[i].st \in {"started", "writing"}
       /\ ThreadStep(i, "error emitted")
  /\ UNCHANGED <<mods_folder, download_folder, fs, table, buttons, worker,
                 signals>>

\* download's on_done, lines 749-755; on a deleted button setText raises
OnDownloadFinished ==
  /\ \E i \in 1..Len(active_downloads) :
       LET t == active_downloads[i]
       IN /\ t.st = "finished emitted"
          /\ ThreadStep(i, "finished")
          /\ table' = IF t.detached THEN table
                      ELSE [table EXCEPT ![t.row].btn = "Ok",
                                         ![t.row].name = t.filename]
  /\ UNCHANGED <<mods_folder, download_folder, fs, buttons, worker, signals>>

\* the slot of error, line 758: the button is enabled again
OnDownloadError ==
  /\ \E i \in 1..Len(active_downloads) :
       LET t == active_downloads[i]
       IN /\ t.st = "error emitted"
          /\ ThreadStep(i, "failed")
          /\ table' = IF t.detached THEN table
                      ELSE [table EXCEPT ![t.row].enabled = TRUE]
  /\ UNCHANGED <<mods_folder, download_folder, fs, buttons, worker, signals>>

\* The handler download() on its own: rows for records that carry a
\* project_id, as fetch_ver builds them, with needs_update either way and the
\* name of the installed file, over a mods folder that holds any of: the file
\* to be written (readable or not), a superseded release, and a file of
\* another name with the content of the new release
SweepRecords ==
  {[SearchRecord EXCEPT !.display_name = n, !.needs_update = u] :
     n \in {"old.jar"}, u \in {"True", "False"}}

SweepDirs ==
  {d \in UNION {[names -> {"h9", "h0", "unreadable"}] :
                  names \in SUBSET {"new.jar", "old.jar", "older.jar"}} :
     /\ "new.jar" \in DOMAIN d => d["new.jar"] = "h9"
     /\ "older.jar" \in DOMAIN d => d["older.jar"] = "h0"}

InitSweep ==
  /\ mods_folder = "mods"
  /\ download_folder = ""
  /\ fs \in {[mods |-> d, dl |-> EmptyMap] : d \in SweepDirs}
  /\ table = <<>>
  /\ buttons = [InitButtons EXCEPT !.scan = TRUE]
  /\ worker = NoWorker
  /\ signals = <<>>
  /\ active_downloads = <<>>

\* add_mod_to_table called with a record of the set
AddRecordOf(records) ==
  /\ Len(table) < MaxRows
  /\ \E res \in records :
       /\ table' = add_mod_to_table(table, res)
       /\ buttons' = ShownAfter(buttons, res)
  /\ UNCHANGED <<mods_folder, download_folder, fs, worker, signals,
                 active_downloads>>

AddRecord == AddRecordOf(SweepRecords)

\* the threads a step starts
Started ==
  {active_downloads'[i] :
     i \in (Len(active_downloads) + 1)..Len(active_downloads')}

\* C1: a step of download() that runs the sweep leaves the file of the
\* target directory named as the new download, if there is one, in place with
\* its content, and no pass of the sweep counts it among the files to delete.
SweepSparesNewFile ==
  [][\A t \in Started :
       t.sweep.ran =>
         /\ t.filename \notin t.sweep.qualified
         /\ t.filename \notin t.sweep.deleted
         /\ t.filename \in DOMAIN fs[t.dir] =>
              /\ t.filename \in DOMAIN fs'[t.dir]
              /\ fs'[t.dir][t.filename] = fs[t.dir][t.filename]]_vars

\* C1 witness: two downloads to new.jar were started, one swept by hashes and
\* one by names, both deleted other files, the names the registry listed
\* included new.jar, and new.jar, a release of the project, is still there.
SweepWitness ==
  /\ Len(active_downloads) = 2
  /\ \A i \in 1..2 : /\ active_downloads[i].st = "started"
                     /\ active_downloads[i].filename = "new.jar"
                     /\ active_downloads[i].sweep.deleted # {}
  /\ active_downloads[1].sweep.batch = "200"
  /\ active_downloads[2].sweep.fallback = "200"
  /\ "new.jar" \in active_downloads[2].sweep.valid_filenames
  /\ "new.jar" \in DOMAIN fs["mods"]
  /\ fs["mods"]["new.jar"] = "h9"

\* the update record of a project whose first listed version is a beta with
\* its own file, where fetch_ver offers the first release, new.jar
BetaUpdate ==
  [SearchRecord EXCEPT !.display_name = "old.jar", !.needs_update = "True",
                       !.url = "url/beta", !.filename = "beta.jar"]

\* a search row and an update row of one project
InstallRecords == {SearchRecord, BetaUpdate}

AddInstallRecord == AddRecordOf(InstallRecords)

\* a download thread that has started and neither finished nor failed
InProgress(t) == t.st \in {"started", "writing"}

SavePath(t) == <<t.dir, t.filename>>

\* C2 as stated: never two downloads in progress with the same save_path.
OneDownloadPerPath ==
  \A i, j \in 1..Len(active_downloads) :
    (i # j /\ InProgress(active_downloads[i]) /\ InProgress(active_downloads[j]))
    => SavePath(active_downloads[i]) # SavePath(active_downloads[j])

\* C3 as stated: the download started from an update row of a scan ran the
\* sweep, and once it has finished the file it supersedes (the row's file,
\* when its name is not the new one) is gone from the folder.
UpdateSweepsSuperseded ==
  \A i \in 1..Len(active_downloads) :
    LET t == active_downloads[i]
    IN t.update =>
         /\ t.sweep.ran
         /\ (t.st \in {"finished emitted", "finished"}
             /\ t.original # t.filename)
            => t.original \notin DOMAIN fs[t.dir]

StaleResultsDiscarded ==
  \A r \in 1..Len(table) : table[r].op = Len(worker)

LogOf(kind) == {i \in 1..Len(scan_log) : scan_log[i].signal = kind}

ScanEnded == scan_pc \in {"returned", "raised"}

\* C4 as stated, for the folder scan: a started scan ends having emitted
\* finished exactly once, after all of its mod_found records, whatever the
\* registry answered (here: once run is over, the last signal is the one
\* finished signal).
ScanAlwaysFinishes ==
  /\ Cardinality(LogOf("finished")) <= 1
  /\ \A i \in LogOf("finished") : i = Len(scan_log)
  /\ ScanEnded => Cardinality(LogOf("finished")) = 1

\* a version object with the id, the version number and the first file that
\* the update check reads
WellFormedVersion(v) ==
  /\ v.id # Missing
  /\ v.version_number # Missing
  /\ v.files # <<>>
  /\ v.files[1].url # Missing
  /\ v.files[1].filename # Missing

\* C5: for a recognized file scanned with update-check enabled whose version
\* listing answered 200 with a non-empty list and a readable first version:
\* equal ids give status UpToDate with no download URL and no needs_update;
\* differing ids give the update status carrying the installed and the first
\* listed version numbers, needs_update true, and the URL and filename of the
\* first file of the first listed version.
ScanUpdateStatus ==
  \A i \in LogOf("mod_found") :
    LET e == scan_log[i]
    IN (/\ check_updates
        /\ e.f_hash \in DOMAIN recognized
        /\ recognized[e.f_hash].id # Missing
        /\ e.listing.status = "200"
        /\ e.listing.versions # <<>>
        /\ WellFormedVersion(e.listing.versions[1]))
       => LET latest == e.listing.versions[1]
              v_data == recognized[e.f_hash]
          IN IF latest.id = v_data.id
             THEN /\ e.res.status = StatusUpToDate
                  /\ e.res.url = Missing
                  /\ e.res.needs_update = Missing
             ELSE /\ e.res.status = StatusUpdate(v_data.version_number,
                                                 latest.version_number)
                  /\ e.res.needs_update = "True"
                  /\ e.res.url = latest.files[1].url
                  /\ e.res.filename = latest.files[1].filename
                  /\ e.res.url # Missing

\* C5 witness: a scan emitted one record with the update status and the new
\* file's URL, and one with status UpToDate
ScanUpdateWitness ==
  /\ scan_pc = "returned"
  /\ \E i, j \in LogOf("mod_found") :
       /\ scan_log[i].res.status = StatusUpdate("1.0", "2.0")
       /\ scan_log[i].res.url = "url/new"
       /\ scan_log[i].res.filename = "new.jar"
       /\ scan_log[i].res.needs_update = "True"
       /\ scan_log[j].res.status = StatusUpToDate

\* the update check of a recognized file failed: the listing raised, answered
\* another status or an empty list, or the check read a field that the first
\* listed version does not have
FetchFailed(listing, v_data) ==
  \/ listing.status \in {"exception", "not 200"}
  \/ /\ listing.status = "200"
     /\ \/ listing.versions = <<>>
        \/ listing.versions[1].id = Missing
        \/ /\ v_data.id # Missing
           /\ listing.versions[1].id # v_data.id
           /\ ~WellFormedVersion(listing.versions[1])

\* C14 as stated: the record of a recognized file whose update check failed
\* has status Installed, needs_update not true and no download URL.
ScanFetchFailureKeepsInstalled ==
  \A i \in LogOf("mod_found") :
    LET e == scan_log[i]
    IN (/\ check_updates
        /\ e.f_hash \in DOMAIN recognized
        /\ FetchFailed(e.listing, recognized[e.f_hash]))
       => /\ e.res.status = StatusInstalled
          /\ e.res.needs_update # "True"
          /\ e.res.url = Missing

\* the .jar files of the scanned folder whose fingerprint can be computed
ReadableJars == {f \in DOMAIN scan_dir : IsJar(f) /\ scan_dir[f] # "unreadable"}

\* C16 as stated: a scan that has completed emitted exactly one record for
\* each readable .jar file of the folder and none for any other file, and
\* the completion signal after them.
ScanOneRecordPerFile ==
  scan_pc = "returned" =>
    /\ \A f \in ReadableJars :
         Cardinality({i \in LogOf("mod_found") :
                        scan_log[i].res.display_name = f}) = 1
    /\ \A i \in LogOf("mod_found") : scan_log[i].res.display_name \in ReadableJars
    /\ Cardinality(LogOf("mod_found")) = Cardinality(ReadableJars)
    /\ scan_log[Len(scan_log)].signal = "finished"

\* C6 as stated: once the scan is over, every readable .jar file of the
\* folder whose hash is absent from the batch response has exactly one
\* record, with status Unrecognized, its filename as title, no download URL,
\* needs_update unset, and no version listing fetched for it.
ScanUnrecognizedAsStated ==
  ScanEnded =>
    \A f \in DOMAIN scan_dir :
      (/\ IsJar(f)
       /\ get_file_hash(scan_dir, f) # Missing
       /\ get_file_hash(scan_dir, f) \notin DOMAIN recognized)
      => /\ Cardinality({i \in LogOf("mod_found") :
                           scan_log[i].res.title = f}) = 1
         /\ \A i \in LogOf("mod_found") :
              scan_log[i].res.title = f =>
                /\ scan_log[i].res.status = StatusUnknown
                /\ scan_log[i].res.url = Missing
                /\ scan_log[i].res.needs_update = Missing
                /\ scan_log[i].listing = NoListing

(***************************************************************************)
(* Specifications                                                          *)
(***************************************************************************)
OutsideVersion == UNCHANGED <<rank_vars, dl_vars, scan_vars, app_vars, fetch_vars>>

VersionInit == InitVersion /\ RankIdle /\ DownloadIdle /\ ScanIdle /\ AppIdle
  /\ FetchIdle

NextVersion == CompareVersions /\ OutsideVersion

SpecVersion == VersionInit /\ [][NextVersion]_vars

OutsideRank == UNCHANGED <<version_vars, dl_vars, scan_vars, app_vars, fetch_vars>>

RankInit == InitRank /\ VersionIdle /\ DownloadIdle /\ ScanIdle /\ AppIdle
  /\ FetchIdle

NextRank == RankHits /\ OutsideRank

SpecRank == RankInit /\ [][NextRank]_vars

OutsideDownload == UNCHANGED <<version_vars, rank_vars, scan_vars, app_vars, fetch_vars>>

DownloadInit == InitDownload /\ VersionIdle /\ RankIdle /\ ScanIdle /\ AppIdle
  /\ FetchIdle

NextDownload ==
  \/ DlGet /\ OutsideDownload
  \/ DlOpenFails /\ OutsideDownload
  \/ DlChunk /\ OutsideDownload
  \/ DlChunkFails /\ OutsideDownload
  \/ DlFinished /\ OutsideDownload

SpecDownload == DownloadInit /\ [][NextDownload]_vars

OutsideScan == UNCHANGED <<version_vars, rank_vars, dl_vars, app_vars, fetch_vars>>

ScanInit == InitScan /\ VersionIdle /\ RankIdle /\ DownloadIdle /\ AppIdle
  /\ FetchIdle

NextScan ==
  \/ ScanStart /\ OutsideScan
  \/ ScanResolve /\ OutsideScan
  \/ ScanResolveFails /\ OutsideScan
  \/ ScanNames /\ OutsideScan
  \/ ScanProcess /\ OutsideScan
  \/ ScanFinish /\ OutsideScan

SpecScan == ScanInit /\ [][NextScan]_vars

OutsideApp == UNCHANGED <<version_vars, rank_vars, dl_vars, scan_vars, fetch_vars>>

AppInit == InitApp /\ VersionIdle /\ RankIdle /\ DownloadIdle /\ ScanIdle
  /\ FetchIdle

\* the application, while the process lives: the user's actions, the worker
\* threads and their slots
Next ==
  \/ Alive /\ _set_scan_path /\ OutsideApp
  \/ Alive /\ scan_folder /\ OutsideApp
  \/ Alive /\ select_download_folder /\ OutsideApp
  \/ Alive /\ start_search /\ OutsideApp
  \/ Alive /\ WorkerScans /\ OutsideApp
  \/ Alive /\ WorkerSearches /\ OutsideApp
  \/ Alive /\ WorkerDestroyedRunning /\ OutsideApp
  \/ Alive /\ SignalOfDeletedSender /\ OutsideApp
  \/ Alive /\ OnModFound /\ OutsideApp
  \/ Alive /\ OnScanFinished /\ OutsideApp
  \/ Alive /\ OnResultsReady /\ OutsideApp
  \/ Alive /\ ClickDownload /\ OutsideApp
  \/ Alive /\ update_all_mods /\ OutsideApp
  \/ Alive /\ ThreadOpens /\ OutsideApp
  \/ Alive /\ ThreadCompletes /\ OutsideApp
  \/ Alive /\ ThreadFails /\ OutsideApp
  \/ Alive /\ OnDownloadFinished /\ OutsideApp
  \/ Alive /\ OnDownloadError /\ OutsideApp

Spec == AppInit /\ [][Next]_vars

SweepInit == InitSweep /\ VersionIdle /\ RankIdle /\ DownloadIdle /\ ScanIdle
  /\ FetchIdle

\* download() driven by rows of records with a project_id. The threads it
\* starts are not scheduled here: they delete nothing
NextSweep ==
  \/ AddRecord /\ OutsideApp
  \/ ClickDownload /\ OutsideApp
  \/ update_all_mods /\ OutsideApp

SpecSweep == SweepInit /\ [][NextSweep]_vars

\* download() driven by rows of records with a project_id, with the threads
\* it starts and their slots
NextInstall ==
  \/ AddInstallRecord /\ OutsideApp
  \/ ClickDownload /\ OutsideApp
  \/ update_all_mods /\ OutsideApp
  \/ ThreadOpens /\ OutsideApp
  \/ ThreadCompletes /\ OutsideApp
  \/ ThreadFails /\ OutsideApp
  \/ OnDownloadFinished /\ OutsideApp
  \/ OnDownloadError /\ OutsideApp

SpecInstall == SweepInit /\ [][NextInstall]_vars

OutsideFetch ==
  UNCHANGED <<version_vars, rank_vars, dl_vars, scan_vars, app_vars>>

FetchInit ==
  InitFetch /\ VersionIdle /\ RankIdle /\ DownloadIdle /\ ScanIdle /\ AppIdle

\* ModSearchWorker.run from the sorted hits to results_ready
NextFetch ==
  \/ FetchCut /\ OutsideFetch
  \/ FetchCompletes /\ OutsideFetch
  \/ FetchEmit /\ OutsideFetch

SpecFetch == FetchInit /\ [][NextFetch]_vars

=============================================================================
